---- MODULE Spec2Model ----
(***************************************************************************)
(* Resident directory backend: the resident mutation + audit-trail        *)
(* pipeline (routes/residents.py, repositories/residents.py,               *)
(* core/audit.py, core/db.py).                                             *)
(*                                                                         *)
(* Text values are sequences of one-character strings so that strip(),     *)
(* lower(), int() and the CSV cell formatting are computed, not assumed.   *)
(* An optional value is None (the empty tuple) or Some(x) (a 1-tuple).     *)
(***************************************************************************)
EXTENDS Integers, Sequences, FiniteSets, TLC

\* ------------------------------------------------------------------ bounds
MaxOps == 2
MaxRows == 3
MaxResidents == 3
MaxInflight == 2

\* ------------------------------------------------------- optional values
None == <<>>
Some(x) == <<x>>
IsNone(o) == o = <<>>
Val(o) == o[1]

\* ------------------------------------------------------------ text values
IsSpace(c) == c = " "

RECURSIVE LStrip(_)
LStrip(s) ==
  IF s = <<>> THEN <<>>
  ELSE IF IsSpace(Head(s)) THEN LStrip(Tail(s)) ELSE s

RECURSIVE RStrip(_)
RStrip(s) ==
  IF s = <<>> THEN <<>>
  ELSE IF IsSpace(s[Len(s)]) THEN RStrip(SubSeq(s, 1, Len(s) - 1)) ELSE s

\* str.strip()
Strip(s) == RStrip(LStrip(s))

LowerChar(c) ==
  CASE c = "T" -> "t"
    [] c = "F" -> "f"
    [] c = "Y" -> "y"
    [] c = "N" -> "n"
    [] c = "A" -> "a"
    [] OTHER -> c

\* str.lower()
Lower(s) == [i \in 1..Len(s) |-> LowerChar(s[i])]

Digits == <<"0", "1", "2", "3", "4", "5", "6", "7", "8", "9">>

DigitChar(d) == Digits[d + 1]

IsDigit(c) == \E d \in 0..9 : Digits[d + 1] = c

DigitVal(c) == CHOOSE d \in 0..9 : Digits[d + 1] = c

\* str(int) for a non-negative integer
RECURSIVE IntToStr(_)
IntToStr(n) ==
  IF n < 10 THEN <<DigitChar(n)>>
  ELSE IntToStr(n \div 10) \o <<DigitChar(n % 10)>>

RECURSIVE DigitsToInt(_, _)
DigitsToInt(s, acc) ==
  IF s = <<>> THEN acc
  ELSE DigitsToInt(Tail(s), acc * 10 + DigitVal(Head(s)))

\* int(text): Some(n) for a decimal numeral, None where int() raises ValueError
ParseInt(s) ==
  IF s # <<>> /\ \A i \in 1..Len(s) : IsDigit(s[i])
  THEN Some(DigitsToInt(s, 0))
  ELSE None

\* ------------------------------------------------------------- residents
TextFields == {"full_name", "unit", "building", "floor", "phone", "email", "notes"}

ResidentFields ==
  {"id", "full_name", "unit", "building", "floor", "phone", "email", "photo_url",
   "notes", "is_active", "created_at", "updated_at", "deactivated_at"}

\* a lookup that falls back to the first row when the id has none
get_resident_fallback(db, resident_id) ==
  IF resident_id \in 1..Len(db) THEN Some(db[resident_id])
  ELSE IF db # <<>> THEN Some(db[1]) ELSE None

\* SELECT * FROM residents WHERE id = :id  (None when no row)
get_resident(db, resident_id) ==
  IF resident_id \in 1..Len(db) THEN Some(db[resident_id]) ELSE None

\* the id the store assigns to an inserted row: the INSERT names no id
NextId(db) == Len(db) + 1

\* INSERT INTO residents (...) VALUES (...) RETURNING *
\* the statement sets nine columns; id and the timestamps come from the store
InsertedRow(db, data, now) ==
  [id |-> NextId(db),
   full_name |-> data.full_name,
   unit |-> data.unit,
   building |-> data.building,
   floor |-> data.floor,
   phone |-> data.phone,
   email |-> data.email,
   photo_url |-> data.photo_url,
   notes |-> data.notes,
   is_active |-> data.is_active,
   created_at |-> now,
   updated_at |-> now,
   deactivated_at |-> None]

\* create_resident: [db, row]
create_resident(db, data, now) ==
  LET row == InsertedRow(db, data, now)
  IN  [db |-> Append(db, row), row |-> row]

\* the CASE expression of the UPDATE statement
DeactivatedAtCase(old, patch, now) ==
  LET is_active_present == "is_active" \in DOMAIN patch
      new_is_active == IF "is_active" \in DOMAIN patch THEN patch["is_active"] ELSE TRUE
  IN  IF is_active_present /\ new_is_active = FALSE THEN Some(now)
      ELSE IF is_active_present /\ new_is_active = TRUE THEN None
      ELSE old.deactivated_at

\* a full replace: a column the patch does not name is written as NULL
PatchedRow_replace(old, patch, now) ==
  [f \in ResidentFields |->
     IF f = "deactivated_at" THEN DeactivatedAtCase(old, patch, now)
     ELSE IF f \in DOMAIN patch THEN patch[f]
     ELSE IF f \in TextFields THEN None
     ELSE old[f]]

\* the row written by UPDATE residents SET <patch keys>, deactivated_at = CASE ...
PatchedRow(old, patch, now) ==
  [f \in ResidentFields |->
     IF f = "deactivated_at" THEN DeactivatedAtCase(old, patch, now)
     ELSE IF f \in DOMAIN patch THEN patch[f]
     ELSE old[f]]

\* an update that removes the row when the patch deactivates it
update_resident_delete(db, resident_id, patch, now) ==
  IF DOMAIN patch = {} THEN [db |-> db, row |-> get_resident(db, resident_id)]
  ELSE IF resident_id \in 1..Len(db)
  THEN IF "is_active" \in DOMAIN patch /\ patch["is_active"] = FALSE
       THEN [db |-> SubSeq(db, 1, resident_id - 1) \o SubSeq(db, resident_id + 1, Len(db)),
             row |-> Some(PatchedRow(db[resident_id], patch, now))]
       ELSE [db |-> [db EXCEPT ![resident_id] = PatchedRow(db[resident_id], patch, now)],
             row |-> Some(PatchedRow(db[resident_id], patch, now))]
  ELSE [db |-> db, row |-> None]

\* update_resident: [db, row]; row is None when no row has the id
update_resident(db, resident_id, patch, now) ==
  IF DOMAIN patch = {} THEN [db |-> db, row |-> get_resident(db, resident_id)]
  ELSE IF resident_id \in 1..Len(db)
  THEN LET row == PatchedRow(db[resident_id], patch, now)
       IN  [db |-> [db EXCEPT ![resident_id] = row], row |-> Some(row)]
  ELSE [db |-> db, row |-> None]

\* set_resident_photo_url: [db, row]
set_resident_photo_url(db, resident_id, photo_url) ==
  IF resident_id \in 1..Len(db)
  THEN LET row == [f \in ResidentFields |->
                     IF f = "photo_url" THEN Some(photo_url) ELSE db[resident_id][f]]
       IN  [db |-> [db EXCEPT ![resident_id] = row], row |-> Some(row)]
  ELSE [db |-> db, row |-> None]

\* ------------------------------------------------------------- principals
Admin == [id |-> 1, email |-> "admin@x", roles |-> {"admin"}]
Viewer == [id |-> 2, email |-> "viewer@x", roles |-> {"viewer"}]
Principals == {Admin, Viewer}

\* a check that lets every principal with some role through
require_roles_any(user, required) == user.roles # {}

\* require_roles: the user holds at least one required role
require_roles(user, required) == user.roles \cap required # {}

\* -------------------------------------------------------------- audit log
EntityActions ==
  {"CREATE_RESIDENT", "UPDATE_RESIDENT", "DEACTIVATE_RESIDENT", "UPLOAD_RESIDENT_PHOTO",
   "IMPORT_CREATE_RESIDENT", "IMPORT_UPDATE_RESIDENT"}

\* the row write_audit_log inserts; before/after/metadata are stored as given
AuditRow(actor, action, entity_id, before, after, metadata, now) ==
  [actor_user_id |-> actor.id,
   actor_email |-> actor.email,
   action |-> action,
   entity_type |-> Some("resident"),
   entity_id |-> entity_id,
   before |-> before,
   after |-> after,
   metadata |-> metadata,
   created_at |-> now]

\* an audit write that overwrites the entry the log holds for the entity
write_audit_log_upsert(log, actor, action, entity_id, before, after, metadata, now) ==
  IF \E k \in 1..Len(log) : ~IsNone(entity_id) /\ log[k].entity_id = entity_id
  THEN [k \in 1..Len(log) |->
          IF log[k].entity_id = entity_id
          THEN AuditRow(actor, action, entity_id, before, after, metadata, now)
          ELSE log[k]]
  ELSE Append(log, AuditRow(actor, action, entity_id, before, after, metadata, now))

\* write_audit_log: one INSERT INTO audit_log in the caller's transaction
write_audit_log(log, actor, action, entity_id, before, after, metadata, now) ==
  Append(log, AuditRow(actor, action, entity_id, before, after, metadata, now))

\* a committed resident write, kept as history: what the store held in the row
\* before and after the statement
Mutation(action, id, before, after) ==
  [action |-> action, id |-> id, before |-> before, after |-> after]

\* ------------------------------------------------------------ transactions
\* A world is the committed content of the two tables plus the history of
\* committed resident writes.  A handler returns the world after the request
\* and the response; when it raises before db.commit() the session is closed
\* without a commit and the world is the one it started from.
World(res, log, muts) == [residents |-> res, audit_log |-> log, mutations |-> muts]

Response(op, status, id, arg, body) ==
  [op |-> op, status |-> status, id |-> id, arg |-> arg, body |-> body]

\* a commit that leaves the audit row out when the write changed nothing
Commit_changed(w, db, action, actor, id, before, pre, after, metadata, now) ==
  IF after = pre THEN World(db, w.audit_log, w.mutations)
  ELSE World(db,
             write_audit_log(w.audit_log, actor, action, Some(IntToStr(id)), before, after,
                             metadata, now),
             Append(w.mutations, Mutation(action, id, pre, after)))

\* db.commit() after one resident write and its audit row; before is the
\* snapshot the handler recorded, pre the row the statement found
Commit(w, db, action, actor, id, before, pre, after, metadata, now) ==
  World(db,
        write_audit_log(w.audit_log, actor, action, Some(IntToStr(id)), before, after,
                        metadata, now),
        Append(w.mutations, Mutation(action, id, pre, after)))

\* the dict residents_create hands to create_resident
CreateData(payload) ==
  [full_name |-> payload.full_name,
   unit |-> payload.unit,
   building |-> payload.building,
   floor |-> payload.floor,
   phone |-> payload.phone,
   email |-> payload.email,
   photo_url |-> None,
   notes |-> payload.notes,
   is_active |-> payload.is_active]

\* POST /residents
residents_create(w, user, payload, audit_raises, now) ==
  IF ~require_roles(user, {"admin"}) THEN [w |-> w, resp |-> Response("create", 403, 0, payload, None)]
  ELSE LET created == create_resident(w.residents, CreateData(payload), now)
       IN  IF audit_raises THEN [w |-> w, resp |-> Response("create", 500, 0, payload, None)]
           ELSE [w |-> Commit(w, created.db, "CREATE_RESIDENT", user, created.row.id,
                              None, None, Some(created.row), None, now),
                 resp |-> Response("create", 200, created.row.id, payload, Some(created.row))]

\* the second half of residents_update, from update_resident on; before is the
\* snapshot the handler read with get_resident
update_finish(w, user, resident_id, patch, before, audit_raises, now) ==
  LET updated == update_resident(w.residents, resident_id, patch, now)
  IN  IF IsNone(updated.row) THEN [w |-> w, resp |-> Response("update", 404, resident_id, patch, None)]
      ELSE IF audit_raises THEN [w |-> w, resp |-> Response("update", 500, resident_id, patch, None)]
      ELSE [w |-> Commit(w, updated.db, "UPDATE_RESIDENT", user, resident_id, before,
                         get_resident(w.residents, resident_id), updated.row, None, now),
            resp |-> Response("update", 200, resident_id, patch, updated.row)]

\* PUT /residents/{resident_id}
residents_update(w, user, resident_id, patch, audit_raises, now) ==
  IF ~require_roles(user, {"admin"}) THEN [w |-> w, resp |-> Response("update", 403, resident_id, patch, None)]
  ELSE IF IsNone(get_resident(w.residents, resident_id))
  THEN [w |-> w, resp |-> Response("update", 404, resident_id, patch, None)]
  ELSE update_finish(w, user, resident_id, patch, get_resident(w.residents, resident_id),
                     audit_raises, now)

\* the second half of residents_deactivate
deactivate_finish(w, user, resident_id, before, audit_raises, now) ==
  LET updated == update_resident(w.residents, resident_id, [is_active |-> FALSE], now)
  IN  IF audit_raises THEN [w |-> w, resp |-> Response("deactivate", 500, resident_id, None, None)]
      ELSE [w |-> Commit(w, updated.db, "DEACTIVATE_RESIDENT", user, resident_id, before,
                         get_resident(w.residents, resident_id), updated.row, None, now),
            resp |-> Response("deactivate", 200, resident_id, None, updated.row)]

\* PATCH /residents/{resident_id}/deactivate
residents_deactivate(w, user, resident_id, audit_raises, now) ==
  IF ~require_roles(user, {"admin"}) THEN [w |-> w, resp |-> Response("deactivate", 403, resident_id, None, None)]
  ELSE IF IsNone(get_resident(w.residents, resident_id))
  THEN [w |-> w, resp |-> Response("deactivate", 404, resident_id, None, None)]
  ELSE deactivate_finish(w, user, resident_id, get_resident(w.residents, resident_id),
                         audit_raises, now)

\* ------------------------------------------------------------ photo upload
AllowedExts ==
  {<<".", "j", "p", "g">>, <<".", "j", "p", "e", "g">>, <<".", "p", "n", "g">>,
   <<".", "w", "e", "b", "p">>, <<".", "g", "i", "f">>, <<>>}

\* f"resident_{resident_id}{ext or '.jpg'}"
PhotoFilename(resident_id, ext) ==
  <<"r", "e", "s", "i", "d", "e", "n", "t", "_">> \o IntToStr(resident_id)
    \o (IF ext = <<>> THEN <<".", "j", "p", "g">> ELSE ext)

\* _public_photo_url with an empty public_base_url
public_photo_url(filename) == <<"/", "u", "p", "l", "o", "a", "d", "s", "/">> \o filename

\* the second half of upload_photo, from set_resident_photo_url on
photo_finish(w, user, resident_id, ext, before, audit_raises, now) ==
  LET updated == set_resident_photo_url(w.residents, resident_id,
                                        public_photo_url(PhotoFilename(resident_id, ext)))
  IN  IF audit_raises THEN [w |-> w, resp |-> Response("photo", 500, resident_id, ext, None)]
      ELSE [w |-> Commit(w, updated.db, "UPLOAD_RESIDENT_PHOTO", user, resident_id, before,
                         get_resident(w.residents, resident_id), updated.row,
                         Some([filename |-> PhotoFilename(resident_id, ext)]), now),
            resp |-> Response("photo", 200, resident_id, ext, updated.row)]

\* the checks of upload_photo before the file is written: 0 when they pass
photo_precheck(w, user, resident_id, ext, too_large) ==
  IF ~require_roles(user, {"admin"}) THEN 403
  ELSE IF IsNone(get_resident(w.residents, resident_id)) THEN 404
  ELSE IF Lower(ext) \notin AllowedExts THEN 400
  ELSE IF too_large THEN 400
  ELSE 0

\* POST /residents/{resident_id}/photo
upload_photo(w, user, resident_id, ext, too_large, audit_raises, now) ==
  IF photo_precheck(w, user, resident_id, ext, too_large) # 0
  THEN [w |-> w,
        resp |-> Response("photo", photo_precheck(w, user, resident_id, ext, too_large),
                          resident_id, ext, None)]
  ELSE photo_finish(w, user, resident_id, Lower(ext),
                    get_resident(w.residents, resident_id), audit_raises, now)

\* ----------------------------------------------------------------- listing
\* collation order of the characters that occur in the model's text values
Alphabet ==
  <<" ", ".", "/", "0", "1", "2", "3", "4", "5", "6", "7", "8", "9",
    "A", "F", "N", "T", "Y", "_",
    "a", "b", "c", "d", "e", "f", "g", "i", "j", "l", "n", "o", "p", "r", "s", "t",
    "u", "w", "x", "y">>

CharRank(c) == CHOOSE i \in 1..Len(Alphabet) : Alphabet[i] = c

RECURSIVE TextLess(_, _)
TextLess(a, b) ==
  IF b = <<>> THEN FALSE
  ELSE IF a = <<>> THEN TRUE
  ELSE IF Head(a) = Head(b) THEN TextLess(Tail(a), Tail(b))
  ELSE CharRank(Head(a)) < CharRank(Head(b))

\* ascending with NULLS LAST: -1 before, 0 equal, 1 after
CmpNullsLast(a, b) ==
  IF a = b THEN 0
  ELSE IF IsNone(a) THEN 1
  ELSE IF IsNone(b) THEN -1
  ELSE IF TextLess(Val(a), Val(b)) THEN -1 ELSE 1

\* an ORDER BY that starts with is_active ASC
OrderedBefore_asc(r1, r2) ==
  IF r1.is_active # r2.is_active THEN r2.is_active
  ELSE IF CmpNullsLast(r1.building, r2.building) # 0 THEN CmpNullsLast(r1.building, r2.building) < 0
  ELSE IF CmpNullsLast(r1.floor, r2.floor) # 0 THEN CmpNullsLast(r1.floor, r2.floor) < 0
  ELSE IF CmpNullsLast(r1.unit, r2.unit) # 0 THEN CmpNullsLast(r1.unit, r2.unit) < 0
  ELSE CmpNullsLast(r1.full_name, r2.full_name) < 0

\* ORDER BY is_active DESC, building NULLS LAST, floor NULLS LAST, unit NULLS LAST,
\* full_name ASC
OrderedBefore(r1, r2) ==
  IF r1.is_active # r2.is_active THEN r1.is_active
  ELSE IF CmpNullsLast(r1.building, r2.building) # 0 THEN CmpNullsLast(r1.building, r2.building) < 0
  ELSE IF CmpNullsLast(r1.floor, r2.floor) # 0 THEN CmpNullsLast(r1.floor, r2.floor) < 0
  ELSE IF CmpNullsLast(r1.unit, r2.unit) # 0 THEN CmpNullsLast(r1.unit, r2.unit) < 0
  ELSE CmpNullsLast(r1.full_name, r2.full_name) < 0

RECURSIVE InsertOrdered(_, _)
InsertOrdered(sorted, r) ==
  IF sorted = <<>> THEN <<r>>
  ELSE IF OrderedBefore(r, Head(sorted)) THEN <<r>> \o sorted
  ELSE <<Head(sorted)>> \o InsertOrdered(Tail(sorted), r)

\* rows that tie on every key keep the order of their ids
RECURSIVE SortResidents(_)
SortResidents(rows) ==
  IF rows = <<>> THEN <<>>
  ELSE InsertOrdered(SortResidents(SubSeq(rows, 1, Len(rows) - 1)), rows[Len(rows)])

Contains(s, sub) ==
  \E i \in 1..(Len(s) - Len(sub) + 1) : SubSeq(s, i, i + Len(sub) - 1) = sub

\* col ILIKE '%q%' on COALESCE(col, '')
ILike(col, q) == Contains(Lower(IF IsNone(col) THEN <<>> ELSE Val(col)), Lower(q))

NoFilter == [q |-> None, building |-> None, floor |-> None, unit |-> None, is_active |-> None]

\* a Python-truthy optional text
Given(o) == ~IsNone(o) /\ Val(o) # <<>>

\* the WHERE clause list_residents builds
Matches(r, flt) ==
  /\ Given(flt.q) =>
       \/ ILike(r.full_name, Val(flt.q))
       \/ ILike(r.unit, Val(flt.q))
       \/ ILike(r.email, Val(flt.q))
       \/ ILike(r.phone, Val(flt.q))
  /\ Given(flt.building) => r.building = flt.building
  /\ Given(flt.floor) => r.floor = flt.floor
  /\ Given(flt.unit) => r.unit = flt.unit
  /\ ~IsNone(flt.is_active) => r.is_active = Val(flt.is_active)

Min(a, b) == IF a < b THEN a ELSE b

\* list_residents: [items, total]
list_residents(db, flt, limit, offset) ==
  LET matching == SelectSeq(db, LAMBDA r : Matches(r, flt))
      ordered == SortResidents(matching)
  IN  [items |-> SubSeq(ordered, offset + 1, Min(Len(ordered), offset + limit)),
       total |-> Len(matching)]

\* GET /residents
residents_list(w, user, flt, limit, offset) ==
  IF ~require_roles(user, {"admin", "viewer"})
  THEN [w |-> w, resp |-> Response("list", 403, 0, flt, None)]
  ELSE [w |-> w,
        resp |-> Response("list", 200, 0, flt,
                          Some([items |-> list_residents(w.residents, flt, limit, offset).items,
                                total |-> list_residents(w.residents, flt, limit, offset).total,
                                limit |-> limit,
                                offset |-> offset]))]

\* GET /residents/{resident_id}
residents_get(w, user, resident_id) ==
  IF ~require_roles(user, {"admin", "viewer"})
  THEN [w |-> w, resp |-> Response("get", 403, resident_id, None, None)]
  ELSE IF IsNone(get_resident(w.residents, resident_id))
  THEN [w |-> w, resp |-> Response("get", 404, resident_id, None, None)]
  ELSE [w |-> w, resp |-> Response("get", 200, resident_id, None,
                                   get_resident(w.residents, resident_id))]

\* ------------------------------------------------------------------- export
ExportLimit == 100000

ExportColumns ==
  <<"id", "full_name", "unit", "building", "floor", "phone", "email", "photo_url",
    "notes", "is_active", "created_at", "updated_at", "deactivated_at">>

\* str() of a timestamp
TimeStr(t) == <<"t">> \o IntToStr(t)

OptText(o) == IF IsNone(o) THEN <<>> ELSE Val(o)

\* the cell csv.DictWriter writes for one value of a resident dict
CsvCell(r, col) ==
  CASE col = "id" -> IntToStr(r.id)
    [] col = "is_active" -> (IF r.is_active THEN <<"T", "r", "u", "e">>
                                            ELSE <<"F", "a", "l", "s", "e">>)
    [] col \in {"created_at", "updated_at"} -> TimeStr(r[col])
    [] col = "deactivated_at" ->
         (IF IsNone(r.deactivated_at) THEN <<>> ELSE TimeStr(Val(r.deactivated_at)))
    [] OTHER -> OptText(r[col])

CsvFile(encoding, rows) == [encoding |-> encoding, rows |-> rows]

\* a writer that writes no header when there is no row
ExportLines_bare(items) ==
  IF items = <<>> THEN <<>>
  ELSE <<ExportColumns>> \o
       [i \in 1..Len(items) |->
          [c \in 1..Len(ExportColumns) |-> CsvCell(items[i], ExportColumns[c])]]

\* writer.writeheader(), then writer.writerow(r) for r in items: the lines of
\* the output, each the sequence of its cells
ExportLines(items) ==
  <<ExportColumns>> \o
  [i \in 1..Len(items) |->
     [c \in 1..Len(ExportColumns) |-> CsvCell(items[i], ExportColumns[c])]]

\* the position of a column in a header line
ColumnIndex(header, col) == CHOOSE c \in 1..Len(header) : header[c] = col

\* csv.DictReader over the lines: one dict per line after the header
DictRead(lines) ==
  IF lines = <<>> THEN <<>>
  ELSE [i \in 1..(Len(lines) - 1) |->
          [col \in {lines[1][c] : c \in 1..Len(lines[1])} |->
             lines[i + 1][ColumnIndex(lines[1], col)]]]

\* the file a client holds after an export of db
ExportOf(db, flt) ==
  CsvFile("utf-8", DictRead(ExportLines(list_residents(db, flt, ExportLimit, 0).items)))

\* GET /residents/export.csv
export_csv(w, user, flt, audit_raises, now) ==
  IF ~require_roles(user, {"admin"}) THEN [w |-> w, resp |-> Response("export", 403, 0, flt, None)]
  ELSE IF audit_raises THEN [w |-> w, resp |-> Response("export", 500, 0, flt, None)]
  ELSE [w |-> World(w.residents,
                    write_audit_log(w.audit_log, user, "EXPORT_CSV", None, None, None,
                                    Some([filters |-> flt]), now),
                    w.mutations),
        resp |-> Response("export", 200, 0, flt,
                          Some(ExportLines(list_residents(w.residents, flt, ExportLimit, 0).items)))]

\* ------------------------------------------------------------------- import
TrueTokens == {<<"1">>, <<"t", "r", "u", "e">>, <<"y", "e", "s">>, <<"y">>}

\* row.get(col)
RowGet(row, col) == IF col \in DOMAIN row THEN Some(row[col]) ELSE None

\* (row.get(col) or "").strip()
Stripped(row, col) == Strip(OptText(RowGet(row, col)))

\* (row.get(col) or "").strip() or None
StrippedOrNone(row, col) == IF Stripped(row, col) = <<>> THEN None ELSE Some(Stripped(row, col))

\* is_active is in the patch only for a present, non-blank cell
HasIsActive(row) == ~IsNone(RowGet(row, "is_active")) /\ Strip(row["is_active"]) # <<>>

\* the patch dict import_csv builds from one row
RowPatch(row) ==
  LET base == [full_name |-> Some(Stripped(row, "full_name")),
               unit |-> Some(Stripped(row, "unit")),
               building |-> StrippedOrNone(row, "building"),
               floor |-> StrippedOrNone(row, "floor"),
               phone |-> StrippedOrNone(row, "phone"),
               email |-> StrippedOrNone(row, "email"),
               notes |-> StrippedOrNone(row, "notes")]
  IN  IF HasIsActive(row)
      THEN ("is_active" :> (Lower(Strip(row["is_active"])) \in TrueTokens)) @@ base
      ELSE base

\* {**patch, "photo_url": None, "is_active": patch.get("is_active", True)}
CreateDataOf(patch) ==
  [full_name |-> patch["full_name"],
   unit |-> patch["unit"],
   building |-> patch["building"],
   floor |-> patch["floor"],
   phone |-> patch["phone"],
   email |-> patch["email"],
   photo_url |-> None,
   notes |-> patch["notes"],
   is_active |-> IF "is_active" \in DOMAIN patch THEN patch["is_active"] ELSE TRUE]

RowCreateData(row) == CreateDataOf(RowPatch(row))

RowError(idx, msg) == [line |-> idx, msg |-> msg]

\* the except branch of the row loop
Skip(st, idx, msg) ==
  [st EXCEPT !.skipped = @ + 1, !.errors = Append(@, RowError(idx, msg))]

\* a row after its resident write: the counter, then the row's audit entry;
\* an audit write that raises lands in the except branch, the write stays
\* in the session
RowWritten(st, action, counter, id, before, after, idx, user, audit_raises, now) ==
  LET wrote == [st EXCEPT !.db = after.db,
                          ![counter] = @ + 1,
                          !.muts = Append(@, Mutation(action, id, before, after.row))]
  IN  IF audit_raises THEN Skip(wrote, idx, "audit write failed")
      ELSE [wrote EXCEPT !.log =
              write_audit_log(@, user, action, Some(IntToStr(id)), before, after.row,
                              Some([row |-> idx]), now)]

\* the update branch of one row whose id cell parsed
ImportUpdateId(st, row, resident_id, idx, user, audit_raises, now) ==
  IF IsNone(resident_id) THEN Skip(st, idx, "invalid literal for int()")
  ELSE IF IsNone(get_resident(st.db, Val(resident_id)))
  THEN Skip(st, idx, "not found for update")
  ELSE RowWritten(st, "IMPORT_UPDATE_RESIDENT", "updated", Val(resident_id),
                  get_resident(st.db, Val(resident_id)),
                  update_resident(st.db, Val(resident_id), RowPatch(row), now),
                  idx, user, audit_raises, now)

\* the update branch of one row
ImportUpdateRow(st, row, idx, user, audit_raises, now) ==
  ImportUpdateId(st, row, ParseInt(Stripped(row, "id")), idx, user, audit_raises, now)

\* the create branch of one row, created being what create_resident returned
ImportCreated(st, created, idx, user, audit_raises, now) ==
  RowWritten(st, "IMPORT_CREATE_RESIDENT", "created", created.row.id, None,
             [db |-> created.db, row |-> Some(created.row)], idx, user, audit_raises, now)

\* the create branch of one row
ImportCreateRow(st, row, idx, user, audit_raises, now) ==
  ImportCreated(st, create_resident(st.db, RowCreateData(row), now), idx, user,
                audit_raises, now)

\* the body of the row loop for the row on line idx
ImportRow(st, row, idx, user, audit_raises, now) ==
  IF Stripped(row, "full_name") = <<>> \/ Stripped(row, "unit") = <<>>
  THEN Skip(st, idx, "full_name and unit are required")
  ELSE IF Stripped(row, "id") # <<>>
  THEN ImportUpdateRow(st, row, idx, user, audit_raises, now)
  ELSE ImportCreateRow(st, row, idx, user, audit_raises, now)

\* the session and the counters when the loop starts
ImportStart(w) ==
  [db |-> w.residents, log |-> w.audit_log, muts |-> w.mutations,
   created |-> 0, updated |-> 0, skipped |-> 0, errors |-> <<>>]

\* a loop that stops at the first row that fails
RECURSIVE ImportLoop_abort(_, _, _, _, _, _)
ImportLoop_abort(w, rows, n, user, raising, now) ==
  IF n = 0 THEN ImportStart(w)
  ELSE LET st == ImportLoop_abort(w, rows, n - 1, user, raising, now)
       IN  IF st.skipped > 0 THEN st
           ELSE ImportRow(st, rows[n], n + 1, user, n \in raising, now)

\* for idx, row in enumerate(reader, start=2), over the first n rows;
\* raising is the set of row numbers whose audit write raises
RECURSIVE ImportLoop(_, _, _, _, _, _)
ImportLoop(w, rows, n, user, raising, now) ==
  IF n = 0 THEN ImportStart(w)
  ELSE ImportRow(ImportLoop(w, rows, n - 1, user, raising, now), rows[n], n + 1, user,
                 n \in raising, now)

CsvImportResult(st) ==
  [created |-> st.created, updated |-> st.updated, skipped |-> st.skipped, errors |-> st.errors]

\* the summary audit entry, the commit and the response, st being the session
\* and the counters the row loop left
import_finish(w, st, user, file, summary_raises, now) ==
  IF summary_raises THEN [w |-> w, resp |-> Response("import", 500, 0, file, None)]
  ELSE [w |-> World(st.db,
                    write_audit_log(st.log, user, "IMPORT_CSV", None, None, None,
                                    Some([created |-> st.created,
                                          updated |-> st.updated,
                                          skipped |-> st.skipped]), now),
                    st.muts),
        resp |-> Response("import", 200, 0, file, Some(CsvImportResult(st)))]

\* an import that reads the bytes as they are, whatever the encoding
import_csv_nodecode(w, user, file, raising, summary_raises, now) ==
  IF ~require_roles(user, {"admin"}) THEN [w |-> w, resp |-> Response("import", 403, 0, file, None)]
  ELSE import_finish(w, ImportLoop(w, file.rows, Len(file.rows), user, raising, now),
                     user, file, summary_raises, now)

\* POST /residents/import.csv
import_csv(w, user, file, raising, summary_raises, now) ==
  IF ~require_roles(user, {"admin"}) THEN [w |-> w, resp |-> Response("import", 403, 0, file, None)]
  ELSE IF file.encoding \notin {"utf-8", "utf-8-sig"}
  THEN [w |-> w, resp |-> Response("import", 400, 0, file, None)]
  ELSE import_finish(w, ImportLoop(w, file.rows, Len(file.rows), user, raising, now),
                     user, file, summary_raises, now)

\* ------------------------------------------------------------------- inputs
A == <<"a">>
B == <<"b">>

CreatePayloads ==
  {[full_name |-> Some(A), unit |-> Some(<<"1">>), building |-> Some(<<"x">>), floor |-> None,
    phone |-> None, email |-> None, notes |-> None, is_active |-> TRUE],
   [full_name |-> Some(B), unit |-> Some(<<"2">>), building |-> None, floor |-> None,
    phone |-> None, email |-> None, notes |-> Some(<<"n">>), is_active |-> FALSE],
   [full_name |-> Some(<<>>), unit |-> Some(<<"1">>), building |-> None,
    floor |-> Some(<<"2">>), phone |-> None, email |-> None, notes |-> None,
    is_active |-> TRUE]}

EmptyPatch == <<>>

Patches ==
  {EmptyPatch,
   [notes |-> Some(<<"n">>)],
   [is_active |-> FALSE],
   [is_active |-> TRUE],
   [full_name |-> Some(<<"c">>), building |-> None],
   [unit |-> Some(<<>>)]}

Exts == {<<".", "p", "n", "g">>, <<".", "e", "x", "e">>, <<>>}

Filters == {NoFilter, [NoFilter EXCEPT !.is_active = Some(FALSE)]}

\* the filters of a listing: also a search string and a unit
ListFilters ==
  Filters \cup {[NoFilter EXCEPT !.q = Some(<<"A">>)], [NoFilter EXCEPT !.unit = Some(<<"2">>)]}

\* limit (1..200, 50 when not given) and offset of a listing
Pages ==
  {[limit |-> 50, offset |-> 0], [limit |-> 1, offset |-> 0], [limit |-> 2, offset |-> 1]}

\* ------------------------------------------------------------------- state
VARIABLES residents, audit_log, mutations, now, ops, last, exported, pending

vars == <<residents, audit_log, mutations, now, ops, last, exported, pending>>

\* the requests that have read their before snapshot and not yet written
Slots == 1..MaxInflight

Current == World(residents, audit_log, mutations)

EmptyWorld == World(<<>>, <<>>, <<>>)

\* Requests an administrator has already made when a behaviour starts.  The
\* initial worlds are exactly the worlds these request sequences produce from
\* the empty store, computed with the handlers themselves.
CreateA ==
  [op |-> "create",
   payload |-> CHOOSE p \in CreatePayloads : p.is_active /\ p.full_name = Some(A)]
Deactivate(id) == [op |-> "deactivate", id |-> id]

SetupScripts ==
  {<<>>,
   <<CreateA>>,
   <<CreateA, Deactivate(1)>>,
   <<CreateA, CreateA>>,
   <<CreateA, CreateA, Deactivate(2)>>}

\* the world after the first n requests of a script, the k-th handled at clock k
RECURSIVE RunScript(_, _)
RunScript(script, n) ==
  IF n = 0 THEN EmptyWorld
  ELSE IF script[n].op = "create"
  THEN residents_create(RunScript(script, n - 1), Admin, script[n].payload, FALSE, n).w
  ELSE residents_deactivate(RunScript(script, n - 1), Admin, script[n].id, FALSE, n).w

\* what the client saw of the last request, with the store the request found
Last(resp, user, pre, prelog) ==
  [op |-> resp.op, status |-> resp.status, id |-> resp.id, arg |-> resp.arg,
   body |-> resp.body, user |-> user, pre |-> pre, prelog |-> prelog]

Init ==
  \E script \in SetupScripts :
    /\ residents = RunScript(script, Len(script)).residents
    /\ audit_log = RunScript(script, Len(script)).audit_log
    /\ mutations = RunScript(script, Len(script)).mutations
    /\ now = Len(script)
    /\ ops = 0
    /\ last = Last(Response("none", 0, 0, None, None), Admin, <<>>, 0)
    /\ exported = None
    /\ pending = [s \in Slots |-> None]

\* one request, handled as a whole at clock value now + 1; a request of cost
\* greater than one uses up that many of the MaxOps requests of a behaviour
HandleAt(out, user, cost) ==
  /\ ops < MaxOps
  /\ Len(out.w.residents) <= MaxResidents
  /\ residents' = out.w.residents
  /\ audit_log' = out.w.audit_log
  /\ mutations' = out.w.mutations
  /\ now' = now + 1
  /\ ops' = ops + cost
  /\ last' = Last(out.resp, user, residents, Len(audit_log))
  /\ UNCHANGED pending

Handle(out, user) == HandleAt(out, user, 1)

TargetIds == 1..(Len(residents) + 1)

\* a request by a principal without the admin role is rejected before its
\* arguments are looked at: one representative argument is enough
For(user, args) == IF user = Admin THEN args ELSE {CHOOSE a \in args : TRUE}

ResidentsCreate ==
  /\ ops < MaxOps
  /\ \E user \in Principals :
    \E payload \in For(user, CreatePayloads), audit_raises \in For(user, BOOLEAN) :
      /\ Handle(residents_create(Current, user, payload, audit_raises, now + 1), user)
      /\ UNCHANGED exported

ResidentsUpdate ==
  /\ ops < MaxOps
  /\ \E user \in Principals :
    \E id \in For(user, TargetIds), patch \in For(user, Patches),
       audit_raises \in For(user, BOOLEAN) :
      /\ Handle(residents_update(Current, user, id, patch, audit_raises, now + 1), user)
      /\ UNCHANGED exported

ResidentsDeactivate ==
  /\ ops < MaxOps
  /\ \E user \in Principals :
    \E id \in For(user, TargetIds), audit_raises \in For(user, BOOLEAN) :
      /\ Handle(residents_deactivate(Current, user, id, audit_raises, now + 1), user)
      /\ UNCHANGED exported

UploadPhoto ==
  /\ ops < MaxOps
  /\ \E user \in Principals :
    \E id \in For(user, TargetIds), ext \in For(user, Exts), too_large \in For(user, BOOLEAN),
       audit_raises \in For(user, BOOLEAN) :
      /\ Handle(upload_photo(Current, user, id, ext, too_large, audit_raises, now + 1), user)
      /\ UNCHANGED exported

ExportCsv ==
  /\ ops < MaxOps
  /\ \E user \in Principals :
    \E flt \in For(user, Filters), audit_raises \in For(user, BOOLEAN) :
      \E out \in {export_csv(Current, user, flt, audit_raises, now + 1)} :
        /\ Handle(out, user)
        /\ exported' = IF out.resp.status = 200
                       THEN Some(CsvFile("utf-8", DictRead(Val(out.resp.body))))
                       ELSE exported

\* the read handlers do not look at the principal beyond the role check: the
\* viewer's requests are one listing and the lookups
ResidentsList ==
  /\ ops < MaxOps
  /\ \E user \in Principals :
    \E flt \in For(user, ListFilters), page \in For(user, Pages) :
      /\ Handle(residents_list(Current, user, flt, page.limit, page.offset), user)
      /\ UNCHANGED exported

ResidentsGet ==
  /\ ops < MaxOps
  /\ \E user \in Principals :
    \E id \in TargetIds :
      /\ Handle(residents_get(Current, user, id), user)
      /\ UNCHANGED exported

\* rows a client may put in a batch: a create, a row without a unit, an update
\* of resident 1 that leaves columns out, an update of an id nobody has, an id
\* that is not a number
BatchRows ==
  {[full_name |-> A, unit |-> <<"1">>],
   [full_name |-> A, unit |-> <<" ">>],
   [id |-> <<"1">>, full_name |-> <<" ", "b">>, unit |-> <<"1">>, notes |-> <<>>],
   [id |-> <<"9">>, full_name |-> A, unit |-> <<"1">>],
   [id |-> <<"x">>, full_name |-> A, unit |-> <<"1">>]}

\* rows a client may put in a file
ImportRows ==
  BatchRows \cup
  {
   [full_name |-> <<"c">>, unit |-> <<"2">>, is_active |-> <<"N", "o">>],
   [id |-> <<"2">>, full_name |-> B, unit |-> <<"2">>, is_active |-> <<" ", "Y", "e", "s">>]}

RECURSIVE SeqsUpTo(_, _)
SeqsUpTo(S, n) ==
  IF n = 0 THEN {<<>>}
  ELSE SeqsUpTo(S, n - 1) \cup {Append(q, x) : q \in {t \in SeqsUpTo(S, n - 1) : Len(t) = n - 1}, x \in S}

\* a file whose bytes are not UTF-8 (a latin-1 file with a byte over 0x7f), a
\* UTF-8 file that starts with a byte-order mark, and the last export
OtherFiles ==
  {CsvFile("latin-1", <<[full_name |-> A, unit |-> <<"1">>]>>),
   CsvFile("utf-8-sig", <<[full_name |-> A, unit |-> <<"1">>]>>)}
    \cup (IF IsNone(exported) THEN {} ELSE {Val(exported)})

\* the files of at most one row
ShortFiles == {CsvFile("utf-8", rows) : rows \in SeqsUpTo(ImportRows, 1)} \cup OtherFiles

\* the files of up to MaxRows rows
BatchFiles == {CsvFile("utf-8", rows) : rows \in SeqsUpTo(BatchRows, MaxRows)}

ImportOf(files, cost) ==
  /\ ops < MaxOps
  /\ \E user \in Principals :
    \E file \in For(user, files), summary_raises \in For(user, BOOLEAN) :
      \E raising \in (IF summary_raises THEN {{}} ELSE For(user, SUBSET (1..Len(file.rows)))) :
        LET out == import_csv(Current, user, file, raising, summary_raises, now + 1)
        IN  /\ HandleAt(out, user, cost)
            /\ UNCHANGED exported

\* an import of a file of at most one row
ImportCsv == ImportOf(ShortFiles, 1)

\* an import of a file of up to MaxRows rows, the last request of a behaviour
ImportBatch == ImportOf(BatchFiles, MaxOps - ops)

Next ==
  \/ ResidentsList
  \/ ResidentsGet
  \/ ResidentsCreate
  \/ ResidentsUpdate
  \/ ResidentsDeactivate
  \/ UploadPhoto
  \/ ExportCsv
  \/ ImportCsv

Spec == Init /\ [][Next]_vars

NextCsv == ImportBatch

SpecCsv == Init /\ [][NextCsv]_vars

\* ---------------------------------------------------- interleaved requests
\* Two requests may overlap: each reads its before snapshot in one statement
\* and writes in a later one.  The store runs them at its default isolation
\* level: every statement sees what is committed when it runs, and the UPDATE,
\* the audit INSERT and the commit of one request are not interrupted by a
\* write of the same row.
InFlight(kind, user, id, arg, before, at) ==
  [kind |-> kind, user |-> user, id |-> id, arg |-> arg, before |-> before, at |-> at]

\* a request that ends before it writes
Reject(resp, user) ==
  /\ last' = Last(resp, user, residents, Len(audit_log))
  /\ UNCHANGED <<residents, audit_log, mutations, exported, pending>>

\* the first half of a request: the role check, get_resident and the checks
\* before the first write
Begin(slot, kind, user, id, arg, status) ==
  /\ ops < MaxOps
  /\ IsNone(pending[slot])
  /\ now' = now + 1
  /\ ops' = ops + 1
  /\ IF status # 0
     THEN Reject(Response(kind, status, id, arg, None), user)
     ELSE /\ pending' = [pending EXCEPT ![slot] =
                           Some(InFlight(kind, user, id, arg, get_resident(residents, id),
                                         now + 1))]
          /\ UNCHANGED <<residents, audit_log, mutations, exported, last>>

\* the status residents_update and residents_deactivate end with before writing
FoundStatus(user, id) ==
  IF ~require_roles(user, {"admin"}) THEN 403
  ELSE IF IsNone(get_resident(residents, id)) THEN 404
  ELSE 0

BeginUpdate ==
  /\ ops < MaxOps
  /\ \E slot \in Slots, user \in Principals :
    \E id \in For(user, TargetIds), patch \in For(user, Patches) :
      Begin(slot, "update", user, id, patch, FoundStatus(user, id))

BeginDeactivate ==
  /\ ops < MaxOps
  /\ \E slot \in Slots, user \in Principals :
    \E id \in For(user, TargetIds) :
      Begin(slot, "deactivate", user, id, None, FoundStatus(user, id))

BeginPhoto ==
  /\ ops < MaxOps
  /\ \E slot \in Slots, user \in Principals :
    \E id \in For(user, TargetIds), ext \in For(user, Exts), too_large \in For(user, BOOLEAN) :
      Begin(slot, "photo", user, id, Lower(ext),
            photo_precheck(Current, user, id, ext, too_large))

\* the second half of the request in a slot
FinishOf(req, audit_raises) ==
  CASE req.kind = "update" ->
         update_finish(Current, req.user, req.id, req.arg, req.before, audit_raises, req.at)
    [] req.kind = "deactivate" ->
         deactivate_finish(Current, req.user, req.id, req.before, audit_raises, req.at)
    [] req.kind = "photo" ->
         photo_finish(Current, req.user, req.id, req.arg, req.before, audit_raises, req.at)

Finish ==
  \E slot \in Slots, audit_raises \in BOOLEAN :
    /\ ~IsNone(pending[slot])
    /\ residents' = FinishOf(Val(pending[slot]), audit_raises).w.residents
    /\ audit_log' = FinishOf(Val(pending[slot]), audit_raises).w.audit_log
    /\ mutations' = FinishOf(Val(pending[slot]), audit_raises).w.mutations
    /\ last' = Last(FinishOf(Val(pending[slot]), audit_raises).resp,
                    Val(pending[slot]).user, residents, Len(audit_log))
    /\ pending' = [pending EXCEPT ![slot] = None]
    /\ UNCHANGED <<now, ops, exported>>

NextConc ==
  \/ BeginUpdate
  \/ BeginDeactivate
  \/ BeginPhoto
  \/ Finish

SpecConc == Init /\ [][NextConc]_vars

\* ------------------------------------------------------------------ claims
\* the committed audit entries about one resident
EntityEntries == SelectSeq(audit_log, LAMBDA e : e.action \in EntityActions)

EntriesOf(id) == SelectSeq(audit_log, LAMBDA e : e.entity_id = Some(IntToStr(id)))

AuditErrors(errors) == {i \in 1..Len(errors) : errors[i].msg = "audit write failed"}

\* C1: audit completeness.  The committed entity-level audit entries are, one
\* for one and in commit order, the committed resident writes: same number,
\* same action tag, and the resident's id as entity_id.
C1_AuditCompleteness ==
  /\ Len(EntityEntries) = Len(mutations)
  /\ \A i \in 1..Len(mutations) :
       i <= Len(EntityEntries) =>
         /\ EntityEntries[i].action = mutations[i].action
         /\ EntityEntries[i].entity_id = Some(IntToStr(mutations[i].id))

\* C2: all-or-nothing commit.  A committed resident write has its audit entry
\* and an entity-level audit entry has its resident write; a request that
\* fails leaves the residents and the audit log as it found them.
C2_AllOrNothing ==
  /\ \A i \in 1..Len(mutations) :
       \E j \in 1..Len(audit_log) :
         /\ audit_log[j].action = mutations[i].action
         /\ audit_log[j].after = mutations[i].after
  /\ \A j \in 1..Len(audit_log) :
       audit_log[j].action \in EntityActions =>
         \E i \in 1..Len(mutations) :
           /\ audit_log[j].action = mutations[i].action
           /\ audit_log[j].after = mutations[i].after
  /\ (last.op # "none" /\ last.status # 200) =>
       (residents = last.pre /\ Len(audit_log) = last.prelog)

\* C3: for every committed single-entity write (create, update, deactivate,
\* photo upload) the audit entry's before is the row as the write found it
\* (null for a create) and its after is the row as the write left it.
C3_BeforeAfter ==
  \A i \in 1..Len(mutations) :
    (i <= Len(EntityEntries) /\ Len(EntityEntries) = Len(mutations)) =>
      /\ EntityEntries[i].after = mutations[i].after
      /\ EntityEntries[i].before = mutations[i].before

\* C4: the committed audit entries of one resident form a chain in commit
\* order: each entry's before is the after of the entry before it, and the
\* last entry's after is the stored resident.
C4_AuditChain ==
  \A id \in 1..Len(residents) :
    /\ \A k \in 1..(Len(EntriesOf(id)) - 1) :
         EntriesOf(id)[k + 1].before = EntriesOf(id)[k].after
    /\ EntriesOf(id) # <<>> => EntriesOf(id)[Len(EntriesOf(id))].after = Some(residents[id])

\* C5: a resident is inactive exactly when it has a deactivated_at.
C5_DeactivatedIff ==
  \A id \in 1..Len(residents) :
    (residents[id].is_active = FALSE) <=> ~IsNone(residents[id].deactivated_at)

\* the rows of the import the last response answers
LastRows == last.arg.rows

ImportDone == last.op = "import" /\ last.status = 200

ImportResult == Val(last.body)

\* a row with both required fields
RowValid(row) == Stripped(row, "full_name") # <<>> /\ Stripped(row, "unit") # <<>>

\* a valid row whose id is a number no resident has, also after the batch
TargetsMissing(row) ==
  /\ RowValid(row)
  /\ ~IsNone(ParseInt(Stripped(row, "id")))
  /\ Val(ParseInt(Stripped(row, "id"))) \notin 1..Len(residents)

ErrorsOn(line) == {k \in 1..Len(ImportResult.errors) : ImportResult.errors[k].line = line}

\* the audit entries the last request committed for the row on a line
RowEntries(line) ==
  {j \in (last.prelog + 1)..Len(audit_log) :
     /\ audit_log[j].action \in {"IMPORT_CREATE_RESIDENT", "IMPORT_UPDATE_RESIDENT"}
     /\ Val(audit_log[j].metadata).row = line}

\* C6: an update, deactivate or photo upload of an id no resident has answers
\* 404, and a CSV row that updates such an id is skipped with a not-found
\* error; neither writes an audit entry or creates or changes a resident.
C6_NotFound ==
  /\ (last.op \in {"update", "deactivate", "photo"} /\ last.user = Admin
        /\ last.id \notin 1..Len(last.pre)) =>
       (last.status = 404 /\ residents = last.pre /\ Len(audit_log) = last.prelog)
  /\ ImportDone =>
       /\ \A i \in 1..Len(LastRows) :
            TargetsMissing(LastRows[i]) =>
              /\ Cardinality(ErrorsOn(i + 1)) = 1
              /\ \A k \in ErrorsOn(i + 1) : ImportResult.errors[k].msg = "not found for update"
              /\ RowEntries(i + 1) = {}
       /\ (\A i \in 1..Len(LastRows) : TargetsMissing(LastRows[i])) =>
            /\ residents = last.pre
            /\ Len(audit_log) = last.prelog + 1
            /\ ImportResult.skipped = Len(LastRows)

C6_Witness ==
  /\ ImportDone
  /\ last.pre # <<>>
  /\ Len(LastRows) = 1
  /\ TargetsMissing(LastRows[1])

\* C7: a successful update leaves every field the patch does not supply as it
\* was, deactivated_at included unless the patch supplies is_active, and
\* leaves every other resident as it was.
C7_PatchFrame ==
  (last.op = "update" /\ last.status = 200) =>
    /\ Len(residents) = Len(last.pre)
    /\ \A id \in 1..Len(residents) : id # last.id => residents[id] = last.pre[id]
    /\ \A f \in ResidentFields \ (DOMAIN last.arg \cup {"deactivated_at"}) :
         residents[last.id][f] = last.pre[last.id][f]
    /\ "is_active" \notin DOMAIN last.arg =>
         residents[last.id].deactivated_at = last.pre[last.id].deactivated_at
    /\ DOMAIN last.arg = {} => residents = last.pre

C7_Witness ==
  /\ last.op = "update"
  /\ last.status = 200
  /\ DOMAIN last.arg = {"notes"}
  /\ residents[last.id].notes # last.pre[last.id].notes
  /\ ~IsNone(residents[last.id].building)

\* a valid row without an id: it creates a resident
IsCreateRow(row) == RowValid(row) /\ Stripped(row, "id") = <<>>

CreateRowsBefore(i) == {j \in 1..(i - 1) : IsCreateRow(LastRows[j])}

\* a valid row whose id is a resident when the loop reaches row i
IsUpdateRow(i) ==
  /\ RowValid(LastRows[i])
  /\ ~IsNone(ParseInt(Stripped(LastRows[i], "id")))
  /\ Val(ParseInt(Stripped(LastRows[i], "id")))
       \in 1..(Len(last.pre) + Cardinality(CreateRowsBefore(i)))

\* a row that fails: no full_name or unit, an unparsable id, an id not found
RowFails(i) == ~IsCreateRow(LastRows[i]) /\ ~IsUpdateRow(i)

ExampleBatch ==
  <<[full_name |-> A, unit |-> <<"1">>],
    [full_name |-> A, unit |-> <<" ">>],
    [full_name |-> A, unit |-> <<"1">>]>>

\* C8: in a completed import every failing row (no full_name or unit,
\* unparsable id, id not found) is counted in skipped with one error for its
\* line and no audit entry, and every other row is applied and committed:
\* created and updated count them, the store grew by created, and each has
\* its audit entry unless that entry's write failed.  Three rows with the
\* second lacking a unit give created=2, skipped=1 and one error, on line 3.
C8_RowIsolation ==
  ImportDone =>
    /\ \A i \in 1..Len(LastRows) :
         IF RowFails(i)
         THEN Cardinality(ErrorsOn(i + 1)) = 1 /\ RowEntries(i + 1) = {}
         ELSE Cardinality(ErrorsOn(i + 1)) + Cardinality(RowEntries(i + 1)) = 1
    /\ ImportResult.created = Cardinality({i \in 1..Len(LastRows) : IsCreateRow(LastRows[i])})
    /\ ImportResult.updated = Cardinality({i \in 1..Len(LastRows) : IsUpdateRow(i)})
    /\ Len(residents) = Len(last.pre) + ImportResult.created
    /\ ImportResult.skipped =
         Cardinality({i \in 1..Len(LastRows) : RowFails(i)})
           + Cardinality(AuditErrors(ImportResult.errors))
    /\ Len(ImportResult.errors) = ImportResult.skipped
    /\ \A i \in 1..Len(LastRows) :
         IsCreateRow(LastRows[i]) =>
           \E k \in 1..Len(mutations) :
             /\ mutations[k].action = "IMPORT_CREATE_RESIDENT"
             /\ mutations[k].id = Len(last.pre) + Cardinality(CreateRowsBefore(i)) + 1
             /\ Val(mutations[k].after).full_name = Some(Stripped(LastRows[i], "full_name"))
    /\ (LastRows = ExampleBatch /\ AuditErrors(ImportResult.errors) = {}) =>
         ImportResult = [created |-> 2, updated |-> 0, skipped |-> 1,
                         errors |-> <<RowError(3, "full_name and unit are required")>>]

C8_Witness ==
  /\ ImportDone
  /\ LastRows = ExampleBatch
  /\ ImportResult.created = 2
  /\ ImportResult.skipped = 1
  /\ Len(residents) = Len(last.pre) + 2

\* the rows of the last import that update resident id
RowsUpdating(id) ==
  {i \in 1..Len(LastRows) :
     RowValid(LastRows[i]) /\ ParseInt(Stripped(LastRows[i], "id")) = Some(id)}

ImportPatchColumns == {"building", "floor", "phone", "email", "notes", "is_active"}

\* C9: a completed import leaves a field of an existing resident as it was
\* when no row that updates the resident has the field's column.
C9_AbsentColumns ==
  ImportDone =>
    \A id \in 1..Len(last.pre), c \in ImportPatchColumns :
      (\A i \in RowsUpdating(id) : c \notin DOMAIN LastRows[i]) =>
        residents[id][c] = last.pre[id][c]

\* C10: an import of the export of all the residents it finds, with no audit
\* write failing, updates every row and leaves every resident as it was.
C10_RoundTrip ==
  (ImportDone /\ last.arg = ExportOf(last.pre, NoFilter)
     /\ AuditErrors(ImportResult.errors) = {}) =>
    /\ ImportResult.created = 0
    /\ ImportResult.updated = Len(last.pre)
    /\ ImportResult.skipped = 0
    /\ residents = last.pre

\* the audit entries the last request committed, in commit order
NewEntries == SubSeq(audit_log, last.prelog + 1, Len(audit_log))

\* the committed resident writes with an action tag
WritesOf(action) == {k \in 1..Len(mutations) : mutations[k].action = action}

\* C11: a completed import, the only one of the behaviour, appends
\* created + updated + 1 audit entries; the last of them is the only
\* IMPORT_CSV entry, has no entity_id and records the counts of the result;
\* created and updated are the numbers of residents the batch inserted and
\* patched.
C11_ImportSummary ==
  ImportDone =>
    /\ Len(audit_log) > last.prelog
    /\ Cardinality({j \in 1..Len(NewEntries) : NewEntries[j].action = "IMPORT_CSV"}) = 1
    /\ audit_log[Len(audit_log)].action = "IMPORT_CSV"
    /\ audit_log[Len(audit_log)].entity_id = None
    /\ audit_log[Len(audit_log)].metadata =
         Some([created |-> ImportResult.created, updated |-> ImportResult.updated,
               skipped |-> ImportResult.skipped])
    /\ Len(residents) = Len(last.pre) + ImportResult.created
    /\ Cardinality(WritesOf("IMPORT_CREATE_RESIDENT")) = ImportResult.created
    /\ Cardinality(WritesOf("IMPORT_UPDATE_RESIDENT")) = ImportResult.updated
    /\ Len(NewEntries) = ImportResult.created + ImportResult.updated + 1

\* an update or deactivate by an admin that finds its resident and changes
\* nothing the client supplied: a deactivate of an inactive resident, an
\* update whose patch holds the values the resident has
NoOpRequest ==
  /\ last.user = Admin
  /\ last.id \in 1..Len(last.pre)
  /\ \/ last.op = "deactivate" /\ last.pre[last.id].is_active = FALSE
     \/ last.op = "update" /\ \A f \in DOMAIN last.arg : last.pre[last.id][f] = last.arg[f]

ActionTag == [update |-> "UPDATE_RESIDENT", deactivate |-> "DEACTIVATE_RESIDENT"]

\* C12: a no-op update or deactivate is not refused; when its audit write
\* goes through it answers 200 with the resident and appends exactly one
\* audit entry, with the use case's action tag and the resident's id; when
\* the audit write raises nothing is committed.
C12_NoOpAudited ==
  NoOpRequest =>
    /\ last.status \in {200, 500}
    /\ last.status = 200 =>
         /\ Len(audit_log) = last.prelog + 1
         /\ audit_log[Len(audit_log)].action = ActionTag[last.op]
         /\ audit_log[Len(audit_log)].entity_id = Some(IntToStr(last.id))
         /\ last.body = Some(residents[last.id])
    /\ last.status = 500 => (residents = last.pre /\ Len(audit_log) = last.prelog)

C12_Witness ==
  /\ NoOpRequest
  /\ last.status = 200
  /\ last.op = "deactivate"
  /\ Len(audit_log) = last.prelog + 1

C12_WitnessEmptyPatch ==
  /\ NoOpRequest
  /\ last.status = 200
  /\ last.op = "update"
  /\ DOMAIN last.arg = {}
  /\ residents = last.pre

\* content.decode("utf-8-sig") succeeds
Decodes(file) == file.encoding \in {"utf-8", "utf-8-sig"}

\* C13: an import by an admin of bytes that are not UTF-8 answers 400 and
\* leaves the residents and the audit log as it found them, whatever rows the
\* bytes hold; a UTF-8 file with a byte-order mark is not refused for its
\* encoding.
C13_EncodingError ==
  (last.op = "import" /\ last.user = Admin) =>
    /\ ~Decodes(last.arg) =>
         (last.status = 400 /\ IsNone(last.body) /\ residents = last.pre
            /\ Len(audit_log) = last.prelog)
    /\ Decodes(last.arg) => last.status # 400

C13_Witness ==
  /\ last.op = "import"
  /\ last.user = Admin
  /\ ~Decodes(last.arg)
  /\ last.status = 400
  /\ Len(LastRows) = 1
  /\ IsCreateRow(LastRows[1])

C13_WitnessBom ==
  /\ ImportDone
  /\ last.arg.encoding = "utf-8-sig"
  /\ ImportResult.created = 1
  /\ Len(residents) = Len(last.pre) + 1

\* the residents of a store that match a filter
MatchingIds(db, flt) == {id \in 1..Len(db) : Matches(db[id], flt)}

C14_WitnessRows ==
  /\ last.op = "export"
  /\ last.status = 200
  /\ Len(Val(last.body)) = 3
  /\ Cardinality(MatchingIds(last.pre, last.arg)) < Len(last.pre)

\* C15: the audit log is append-only.  Every step keeps every committed
\* audit entry at its place with all its fields; a step only adds entries
\* at the end.
C15_AppendOnly ==
  [][/\ Len(audit_log') >= Len(audit_log)
     /\ SubSeq(audit_log', 1, Len(audit_log)) = audit_log]_vars

\* an entry whose resident a later request modified
C15_Witness ==
  /\ last.op \in {"update", "deactivate"}
  /\ last.status = 200
  /\ last.id = 1
  /\ \E j \in 1..last.prelog :
       /\ audit_log[j].entity_id = Some(IntToStr(1))
       /\ ~IsNone(audit_log[j].after)
       /\ audit_log[j].after # Some(residents[1])

\* C16: residents are never deleted and ids never change.  Every step keeps
\* every resident's id, removes no resident, and leaves no two residents
\* with the same id; a resident a step adds has an id no resident had.
C16_IdsStable ==
  [][/\ Len(residents') >= Len(residents)
     /\ \A i \in 1..Len(residents) : residents'[i].id = residents[i].id
     /\ \A i \in (Len(residents) + 1)..Len(residents') :
          \A j \in 1..Len(residents) : residents'[i].id # residents[j].id
     /\ \A i, j \in 1..Len(residents') :
          i # j => residents'[i].id # residents'[j].id]_vars

\* a store that grew by a create after one of its residents was deactivated
\* and another one patched by an import row
C16_Witness ==
  /\ Len(residents) = 3
  /\ \E i \in 1..3 : residents[i].is_active = FALSE
  /\ {residents[i].id : i \in 1..3} = 1..3
  /\ last.op \in {"create", "import"}
  /\ last.status = 200
  /\ Len(last.pre) = 2

\* C17: every stored resident has a full_name and a unit, neither null nor
\* the empty string.
C17_NonEmptyNames ==
  \A id \in 1..Len(residents) :
    /\ residents[id].full_name \notin {None, Some(<<>>)}
    /\ residents[id].unit \notin {None, Some(<<>>)}

\* a before b, or equal, in ascending order with nulls last
NullsLastLeq(a, b) ==
  \/ a = b
  \/ IsNone(b)
  \/ ~IsNone(a) /\ ~IsNone(b) /\ TextLess(Val(a), Val(b))

\* r1 is not after r2 by the keys, compared in turn
RECURSIVE KeysLeq(_, _, _)
KeysLeq(r1, r2, keys) ==
  \/ keys = <<>>
  \/ r1[Head(keys)] # r2[Head(keys)] /\ NullsLastLeq(r1[Head(keys)], r2[Head(keys)])
  \/ r1[Head(keys)] = r2[Head(keys)] /\ KeysLeq(r1, r2, Tail(keys))

ListKeys == <<"building", "floor", "unit", "full_name">>

ListBody == Val(last.body)

\* C18: in a list result no inactive resident comes before an active one,
\* and residents of the same group are in ascending order of building,
\* floor, unit, full_name with nulls last; total is the number of residents
\* that match the filter whatever limit and offset are, and the items are
\* the page of the matching residents the limit and the offset cut out.
C18_ListOrder ==
  (last.op = "list" /\ last.status = 200) =>
    /\ \A i, j \in 1..Len(ListBody.items) :
         i < j =>
           /\ ListBody.items[j].is_active => ListBody.items[i].is_active
           /\ ListBody.items[i].is_active = ListBody.items[j].is_active =>
                KeysLeq(ListBody.items[i], ListBody.items[j], ListKeys)
    /\ ListBody.total = Cardinality(MatchingIds(last.pre, last.arg))
    /\ {ListBody.items[i].id : i \in 1..Len(ListBody.items)} \subseteq
         MatchingIds(last.pre, last.arg)
    /\ \A i \in 1..Len(ListBody.items) :
         ListBody.items[i] = last.pre[ListBody.items[i].id]
    /\ Len(ListBody.items) =
         IF ListBody.total - ListBody.offset < 0 THEN 0
         ELSE Min(ListBody.limit, ListBody.total - ListBody.offset)
    /\ Cardinality({ListBody.items[i].id : i \in 1..Len(ListBody.items)}) = Len(ListBody.items)
    /\ residents = last.pre
    /\ Len(audit_log) = last.prelog

\* an unfiltered listing of three residents: an inactive one is listed last,
\* after a resident stored later, and a resident without a building is
\* listed after one with a building
C18_Witness ==
  /\ last.op = "list"
  /\ last.status = 200
  /\ last.arg = NoFilter
  /\ Len(ListBody.items) = 3
  /\ ~ListBody.items[3].is_active
  /\ ListBody.items[3].id < ListBody.items[2].id
  /\ \E i \in 1..2 :
       IsNone(ListBody.items[i + 1].building) /\ ~IsNone(ListBody.items[i].building)

\* the requests that write residents
WriteOps == {"create", "update", "deactivate", "photo", "import"}

\* C19: a request of a principal without the admin role leaves every
\* resident and the audit log as it found them; its create, update,
\* deactivate, photo upload or import is answered 403.  A list or get is
\* not refused for the role, for the viewer and for the admin alike.
C19_ViewerReadOnly ==
  /\ (last.op # "none" /\ "admin" \notin last.user.roles) =>
       /\ residents = last.pre
       /\ Len(audit_log) = last.prelog
       /\ last.op \in WriteOps => (last.status = 403 /\ IsNone(last.body))
  /\ last.op = "list" => last.status = 200
  /\ last.op = "get" =>
       /\ last.status = (IF last.id \in 1..Len(last.pre) THEN 200 ELSE 404)
       /\ last.status = 200 => last.body = Some(last.pre[last.id])

C19_Witness ==
  /\ last.user = Viewer
  /\ last.op = "create"
  /\ last.status = 403
  /\ last.arg \in CreatePayloads
  /\ last.pre # <<>>
  /\ residents = last.pre

C19_WitnessRead ==
  /\ last.user = Viewer
  /\ last.op \in {"list", "get"}
  /\ last.status = 200
  /\ last.pre # <<>>

\* C20: in the result of a completed import created, updated and skipped add
\* up to the number of data rows, errors has skipped entries, and the errors
\* are in ascending line order, the n-th data row being line n + 1.
C20_CountsPartition ==
  ImportDone =>
    /\ ImportResult.created + ImportResult.updated + ImportResult.skipped = Len(LastRows)
    /\ Len(ImportResult.errors) = ImportResult.skipped
    /\ \A k \in 1..Len(ImportResult.errors) :
         ImportResult.errors[k].line \in 2..(Len(LastRows) + 1)
    /\ \A k, m \in 1..Len(ImportResult.errors) :
         k < m => ImportResult.errors[k].line < ImportResult.errors[m].line

\* C21: deactivated_at changes only on a transition of is_active.  A request
\* (one write at most per resident: an update, a deactivate, a photo upload,
\* an import of one row) that leaves a resident's is_active as it found it
\* leaves the resident's deactivated_at as it found it.
C21_DeactivatedAtOnTransition ==
  \A id \in 1..Len(last.pre) :
    residents[id].is_active = last.pre[id].is_active =>
      residents[id].deactivated_at = last.pre[id].deactivated_at

====
